---- MODULE Spec2Model ----
(***************************************************************************)
(* Model of src/crypto/merkle.rs: MerkleTree::new, MerkleTree::root,       *)
(* MerkleTree::proof and MerkleTree::get_proof_from_index.                 *)
(*                                                                         *)
(* Digests are modelled symbolically as sequences of integers in prefix    *)
(* notation, so that the hash is injective (collision free):               *)
(*   <<1>>            the all-zero digest (Default::default(), [0; 32])    *)
(*   <<x + 1>>        the digest x.hash() of the leaf item x (x >= 1)      *)
(*   <<0>> \o l \o r  SHA256(l || r)                                       *)
(* Array indices are 0-based as in the source: nodes is a function on      *)
(* 0 .. len-1.  data is a TLA+ sequence, data[j + 1] is the source's       *)
(* data[j].                                                                *)
(***************************************************************************)
EXTENDS Integers, Sequences, FiniteSets, TLC

\* Largest number of leaves of an input slice.
MaxLeaves == 12

\* Width in bits of the modelled usize (scaled down from 64; only has to
\* exceed every array index the model reaches).
UsizeBits == 16

UsizeMod == 2 ^ UsizeBits

VARIABLES
    data,            \* MerkleTree.data: the borrowed leaf slice
    nodes,           \* MerkleTree.nodes
    parent,          \* ghost: child index |-> index its digest was hashed into
    partner,         \* ghost: child index |-> index it was hashed together with
    pc,              \* position of the caller
    overflow_checks, \* build profile: TRUE = debug (checked arithmetic)
    index,           \* argument of the last get_proof_from_index call
    known_index,     \* local of proof()
    results,         \* local of proof(), its return value when pc = "proof_done"
    panic_msg,       \* message of the panic when pc = "panicked"
    root_ret         \* return value of the last root() call, <<>> before

vars == <<data, nodes, parent, partner, pc, overflow_checks, index,
          known_index, results, panic_msg, root_ret>>

----------------------------------------------------------------------------
\* Digests

ZERO == <<1>>

ItemHash(x) == <<x + 1>>

Sha256Concat(left_hash, right_hash) == <<0>> \o left_hash \o right_hash

----------------------------------------------------------------------------
\* Inputs: slices of n leaves whose first k items are pairwise distinct and
\* whose remaining items are copies of item k (k = n: all distinct,
\* k = n - 1: last leaf duplicated, k = 1: all equal).

LeafSlice(n, k) == [j \in 1..n |-> IF j <= k THEN j ELSE k]

Inputs == {<< >>} \cup {LeafSlice(n, k) : n \in 1..MaxLeaves, k \in 1..MaxLeaves}

\* Indices a caller may pass to get_proof_from_index.
Indices == 0..(MaxLeaves + 1)

----------------------------------------------------------------------------
\* usize arithmetic: the wrapped value and whether the operation overflowed

USub(a, b) == [val |-> (a - b + UsizeMod) % UsizeMod, overflow |-> a < b]

UAdd(a, b) == [val |-> (a + b) % UsizeMod, overflow |-> a + b >= UsizeMod]

EmptyNodes == [j \in 0..(-1) |-> ZERO]

NodesLen(ns) == Cardinality(DOMAIN ns)

RECURSIVE SumSeq(_)
SumSeq(s) == IF s = << >> THEN 0 ELSE Head(s) + SumSeq(Tail(s))

----------------------------------------------------------------------------
\* MerkleTree::new

\* Mutant of PaddedSize: the odd layer size is not rounded up.
PaddedSize_NoRound(this_layer_size) == this_layer_size

\* Lines 29-31: an odd layer size is rounded up to even.
PaddedSize(this_layer_size) ==
    IF this_layer_size % 2 = 1 THEN this_layer_size + 1 ELSE this_layer_size

\* Lines 23-34: the loop that records, per layer, the size before duplication
\* (data_size) and after duplication (layer_size).
RECURSIVE LayerLoop(_, _, _)
LayerLoop(this_layer_size, layer_size, data_size) ==
    IF this_layer_size = 1
    THEN [layer_size |-> Append(layer_size, this_layer_size),
          data_size  |-> Append(data_size, this_layer_size)]
    ELSE LayerLoop(PaddedSize(this_layer_size) \div 2,
                   Append(layer_size, PaddedSize(this_layer_size)),
                   Append(data_size, this_layer_size))

\* Mutant of DupLast: the padding slot keeps its default value.
DupLast_Skipped(ns, layer_start, l, d) == ns

\* Lines 49-51 and 66-68: the padding slot of a layer receives a copy of the
\* layer's last computed node.
DupLast(ns, layer_start, l, d) ==
    IF l # d
    THEN [ns EXCEPT ![layer_start + l - 1] = ns[layer_start + d - 1]]
    ELSE ns

\* Lines 45-51: the bottom layer.
FillBottom(ns, leaves, layer_start, l, d) ==
    DupLast([j \in DOMAIN ns |->
                IF j \in layer_start..(layer_start + d - 1)
                THEN ItemHash(leaves[j - layer_start + 1])
                ELSE ns[j]],
            layer_start, l, d)

\* Mutant of HashLayer: the right digest is fed to the hash first.
HashLayer_Swapped(ns, last_layer_start, layer_start, d) ==
    [j \in DOMAIN ns |->
        IF j \in layer_start..(layer_start + d - 1)
        THEN Sha256Concat(ns[last_layer_start + 2 * (j - layer_start) + 1],
                          ns[last_layer_start + 2 * (j - layer_start)])
        ELSE ns[j]]

\* Lines 57-65: the d nodes of one upper layer, each hashed from the pair at
\* last_layer_start + (i << 1) and last_layer_start + (i << 1) + 1.
HashLayer(ns, last_layer_start, layer_start, d) ==
    [j \in DOMAIN ns |->
        IF j \in layer_start..(layer_start + d - 1)
        THEN Sha256Concat(ns[last_layer_start + 2 * (j - layer_start)],
                          ns[last_layer_start + 2 * (j - layer_start) + 1])
        ELSE ns[j]]

\* Ghost of lines 57-65: the slots read while hashing a layer of d nodes,
\* each mapped to the slot its digest was written into.
ParentsOfLayer(last_layer_start, layer_start, d) ==
    [c \in last_layer_start..(last_layer_start + 2 * d - 1) |->
        layer_start + ((c - last_layer_start) \div 2)]

\* Ghost of lines 59-60: each slot read mapped to the other slot of its pair.
PartnersOfLayer(last_layer_start, d) ==
    [c \in last_layer_start..(last_layer_start + 2 * d - 1) |->
        IF (c - last_layer_start) % 2 = 0 THEN c + 1 ELSE c - 1]

\* Lines 54-69: the remaining layers, k is the 1-based position in the
\* zipped (layer_size, data_size) iterator.
RECURSIVE FillLayers(_, _, _, _)
FillLayers(sz, k, last_layer_start, t) ==
    IF k > Len(sz.layer_size)
    THEN t
    ELSE LET l == sz.layer_size[k]
             d == sz.data_size[k]
             layer_start == last_layer_start - l
         IN  FillLayers(sz, k + 1, layer_start,
                 [nodes   |-> DupLast(HashLayer(t.nodes, last_layer_start,
                                                layer_start, d),
                                      layer_start, l, d),
                  parent  |-> ParentsOfLayer(last_layer_start, layer_start, d)
                                  @@ t.parent,
                  partner |-> PartnersOfLayer(last_layer_start, d)
                                  @@ t.partner])

\* Lines 12-75.
NewTree(leaves) ==
    IF Len(leaves) = 0
    THEN [nodes |-> EmptyNodes, parent |-> EmptyNodes, partner |-> EmptyNodes]
    ELSE LET sz == LayerLoop(Len(leaves), << >>, << >>)
             tree_size == SumSeq(sz.layer_size)
             l == sz.layer_size[1]
             d == sz.data_size[1]
             layer_start == tree_size - l
         IN  FillLayers(sz, 2, layer_start,
                 [nodes   |-> FillBottom([j \in 0..(tree_size - 1) |-> ZERO],
                                         leaves, layer_start, l, d),
                  parent  |-> EmptyNodes,
                  partner |-> EmptyNodes])

\* Mutant of RootOf: the empty tree's root is a hash, not the zero digest.
RootOf_NoSentinel(ns) ==
    IF NodesLen(ns) = 0 THEN Sha256Concat(ZERO, ZERO) ELSE ns[0]

\* Lines 77-84.
RootOf(ns) == IF NodesLen(ns) = 0 THEN ZERO ELSE ns[0]

----------------------------------------------------------------------------
\* MerkleTree::proof and MerkleTree::get_proof_from_index

\* Mutant of SliceIndex: an index past the end is clamped to the last leaf.
SliceIndex_Clamped(len, i) ==
    [ok |-> len > 0, at |-> IF i < len THEN i ELSE len - 1]

\* Line 116: the bounds-checked slice access self.data[index as usize].
SliceIndex(len, i) == [ok |-> i < len, at |-> i]

\* Lines 88-92: position of the first element whose address equals the
\* address of the referenced element; elements are addressed by their offset.
Position(len, at) == CHOOSE j \in 0..(len - 1) :
                        /\ j = at
                        /\ \A h \in 0..(j - 1) : h # at

\* Lines 93-97: the start cursor.
KnownIndexInit(nodes_len, data_len, data_index) ==
    IF data_len % 2 = 1
    THEN LET a == USub(nodes_len, data_len)
             b == USub(a.val, 1)
             c == UAdd(b.val, data_index)
         IN  [val |-> c.val,
              overflow |-> a.overflow \/ b.overflow \/ c.overflow]
    ELSE LET a == USub(nodes_len, data_len)
             c == UAdd(a.val, data_index)
         IN  [val |-> c.val, overflow |-> a.overflow \/ c.overflow]

\* Mutant of SiblingIndex: the parity test is inverted.
SiblingIndex_Flipped(k) == IF k % 2 = 0 THEN UAdd(k, 1) ELSE USub(k, 1)

\* Lines 102-105.
SiblingIndex(k) == IF k % 2 = 1 THEN UAdd(k, 1) ELSE USub(k, 1)

\* Line 107.
ParentIndex(k) == USub(k, 1).val \div 2

----------------------------------------------------------------------------
\* State machine

Init ==
    /\ data \in Inputs
    /\ overflow_checks \in BOOLEAN
    /\ nodes = EmptyNodes
    /\ parent = EmptyNodes
    /\ partner = EmptyNodes
    /\ pc = "start"
    /\ index = 0
    /\ known_index = 0
    /\ results = << >>
    /\ panic_msg = ""
    /\ root_ret = << >>

\* MerkleTree::new(&data)
New ==
    /\ pc = "start"
    /\ nodes' = NewTree(data).nodes
    /\ parent' = NewTree(data).parent
    /\ partner' = NewTree(data).partner
    /\ pc' = "built"
    /\ UNCHANGED <<data, overflow_checks, index, known_index, results,
                   panic_msg, root_ret>>

\* merkle_tree.root()
Root ==
    /\ pc = "built"
    /\ root_ret = << >>
    /\ root_ret' = RootOf(nodes)
    /\ UNCHANGED <<data, nodes, parent, partner, pc, overflow_checks, index,
                   known_index, results, panic_msg>>

\* merkle_tree.get_proof_from_index(i), up to the entry of proof()'s loop
GetProofFromIndex ==
    /\ pc = "built"
    /\ \E i \in Indices :
         LET e == SliceIndex(Len(data), i) IN
         /\ index' = i
         /\ IF ~e.ok
            THEN /\ pc' = "panicked"
                 /\ panic_msg' = "index out of bounds"
                 /\ UNCHANGED <<known_index, results>>
            ELSE LET start == KnownIndexInit(NodesLen(nodes), Len(data),
                                             Position(Len(data), e.at))
                 IN  IF start.overflow /\ overflow_checks
                     THEN /\ pc' = "panicked"
                          /\ panic_msg' = "arithmetic overflow"
                          /\ UNCHANGED <<known_index, results>>
                     ELSE /\ pc' = "proof_loop"
                          /\ known_index' = start.val
                          /\ results' = << >>
                          /\ UNCHANGED panic_msg
    /\ UNCHANGED <<data, nodes, parent, partner, overflow_checks, root_ret>>

\* One iteration of proof()'s loop (lines 98-108), or its break and return.
ProofStep ==
    /\ pc = "proof_loop"
    /\ IF known_index = 0
       THEN /\ pc' = "proof_done"
            /\ UNCHANGED <<known_index, results, panic_msg>>
       ELSE LET s == SiblingIndex(known_index) IN
            IF s.overflow /\ overflow_checks
            THEN /\ pc' = "panicked"
                 /\ panic_msg' = "arithmetic overflow"
                 /\ UNCHANGED <<known_index, results>>
            ELSE IF s.val \notin DOMAIN nodes
            THEN /\ pc' = "panicked"
                 /\ panic_msg' = "index out of bounds"
                 /\ UNCHANGED <<known_index, results>>
            ELSE /\ results' = Append(results, nodes[s.val])
                 /\ known_index' = ParentIndex(known_index)
                 /\ UNCHANGED <<pc, panic_msg>>
    /\ UNCHANGED <<data, nodes, parent, partner, overflow_checks, index,
                   root_ret>>

Next == New \/ Root \/ GetProofFromIndex \/ ProofStep

Spec == Init /\ [][Next]_vars

\* proof() runs to its return or panic once called: the loop has no
\* suspension point.
FairSpec == Spec /\ WF_vars(ProofStep)

----------------------------------------------------------------------------
\* Reference definitions used by the properties

LeafDigests == [j \in 1..Len(data) |-> ItemHash(data[j])]

\* The layer-size recurrence as the specification words it.
RECURSIVE SumOfPaddedSizes(_)
SumOfPaddedSizes(size) ==
    LET padded == IF size % 2 = 1 /\ size > 1 THEN size + 1 ELSE size
    IN  IF size = 1 THEN padded ELSE padded + SumOfPaddedSizes(padded \div 2)

\* The textbook Merkle root with duplicate-last-node padding.
RECURSIVE ReferenceRoot(_)
ReferenceRoot(layer) ==
    IF Len(layer) = 1
    THEN layer[1]
    ELSE LET padded == IF Len(layer) % 2 = 1
                       THEN Append(layer, layer[Len(layer)])
                       ELSE layer
         IN  ReferenceRoot([j \in 1..(Len(padded) \div 2) |->
                               Sha256Concat(padded[2 * j - 1], padded[2 * j])])

\* Start offset of layer k (0 = leaf layer) of a tree over n leaves, where
\* each layer sits directly below (at higher indices than) its parents.
RECURSIVE LayerOffset(_, _)
LayerOffset(n, k) ==
    IF k = 0
    THEN SumOfPaddedSizes(n) - (IF n > 1 THEN PaddedSize(n) ELSE n)
    ELSE LayerOffset(PaddedSize(n) \div 2, k - 1)

\* Number of layers of a tree over n leaves.
RECURSIVE LayerCount(_)
LayerCount(n) == IF n = 1 THEN 1 ELSE 1 + LayerCount(PaddedSize(n) \div 2)

Xor1(p) == IF p % 2 = 0 THEN p + 1 ELSE p - 1

\* The digest of layer k at in-layer position (i >> k) XOR 1.
PairPartnerDigest(i, k) ==
    nodes[LayerOffset(Len(data), k) + Xor1(i \div (2 ^ k))]

\* verify(leaf_digest, proof, claimed_root) of the specification: fold the
\* siblings, the position's parity choosing the concatenation order.
RECURSIVE VerifyFold(_, _, _)
VerifyFold(acc, pos, siblings) ==
    IF siblings = << >>
    THEN acc
    ELSE VerifyFold(IF pos % 2 = 0
                    THEN Sha256Concat(acc, Head(siblings))
                    ELSE Sha256Concat(Head(siblings), acc),
                    pos \div 2, Tail(siblings))

Verify(leaf_digest, siblings, leaf_index, total_leaves, claimed_root) ==
    /\ siblings = << >> => total_leaves = 1
    /\ VerifyFold(leaf_digest, leaf_index, siblings) = claimed_root

Called == pc \in {"proof_loop", "proof_done", "panicked"}

----------------------------------------------------------------------------
\* Properties

\* C1: for every n >= 2 and every non-root index i of the node array, the
\* node hashed from i and its pair partner is stored at (i - 1) >> 1, and the
\* pair partner at i + 1 if i is odd, else at i - 1.
C1_IndexLaw ==
    (pc # "start" /\ Len(data) >= 2) =>
        \A i \in 1..(NodesLen(nodes) - 1) :
            /\ parent[i] = (i - 1) \div 2
            /\ partner[i] = IF i % 2 = 1 THEN i + 1 ELSE i - 1

\* C2: whenever get_proof_from_index(i) returns for i < n, folding
\* hash(leaf[i]) with the returned siblings yields root(tree).
C2_RoundTrip ==
    pc = "proof_done" =>
        Verify(ItemHash(data[index + 1]), results, index, Len(data),
               RootOf(nodes))

\* C3: for n >= 2 the returned proof is, leaf layer first, the pair partner
\* of leaf i's ancestor in every layer below the root; for 7 leaves and
\* i = 2 it is nodes[10], nodes[3], nodes[2].
C3_ProofShape ==
    (pc = "proof_done" /\ Len(data) >= 2) =>
        /\ results = [k \in 1..(LayerCount(Len(data)) - 1) |->
                          PairPartnerDigest(index, k - 1)]
        /\ (Len(data) = 7 /\ index = 2) =>
               results = <<nodes[10], nodes[3], nodes[2]>>

\* C4: for a single-leaf tree the proof of leaf 0 completes normally with
\* the empty sequence: the cursor starts at 0, the loop body never runs.
C4_SingleLeafProof ==
    (Called /\ Len(data) = 1 /\ index = 0) =>
        /\ pc # "panicked"
        /\ known_index = 0
        /\ results = << >>

\* C5: building from an empty leaf sequence completes, the node array has
\* length 0 and root() returns the all-zero digest.
C5_EmptyTree ==
    (pc # "start" /\ Len(data) = 0) =>
        /\ NodesLen(nodes) = 0
        /\ root_ret # << >> => root_ret = ZERO

C5_Witness == pc = "built" /\ Len(data) = 0 /\ root_ret = ZERO

\* C6: a call with leaf_index >= n fails with an out-of-range panic, never
\* yields a proof, and leaves the tree unchanged.
C6_OutOfRange ==
    /\ []((Called /\ index >= Len(data)) =>
             /\ pc = "panicked"
             /\ panic_msg = "index out of bounds"
             /\ results = << >>)
    /\ [][pc # "start" => (nodes' = nodes /\ data' = data)]_vars

C6_Witness == pc = "panicked" /\ index >= Len(data) /\ Len(data) >= 9

\* C7: for n >= 1 the node array's length is the sum of the padded layer
\* sizes of n; for n = 7 it is 15.
C7_TreeSize ==
    (pc # "start" /\ Len(data) >= 1) =>
        /\ NodesLen(nodes) = SumOfPaddedSizes(Len(data))
        /\ Len(data) = 7 => NodesLen(nodes) = 15

C7_Witness == pc = "built" /\ Len(data) = 7 /\ NodesLen(nodes) = 15

\* C8: for n >= 1 root() is the reference Merkle root of the leaf digests
\* with duplicate-last-node padding and left-first concatenation.
C8_RootIsReference ==
    (root_ret # << >> /\ Len(data) >= 1) =>
        root_ret = ReferenceRoot(LeafDigests)

C8_Witness ==
    /\ root_ret # << >>
    /\ Len(data) = 11
    /\ \A a, b \in 1..Len(data) : a # b => data[a] # data[b]

\* C9: for every leaf sequence of odd length n >= 3, appending a copy of the
\* last leaf gives a tree of n + 1 leaves with the same root.
C9_DuplicateAmbiguity ==
    (root_ret # << >> /\ Len(data) >= 3 /\ Len(data) % 2 = 1) =>
        LET longer == Append(data, data[Len(data)])
        IN  /\ Len(longer) # Len(data)
            /\ RootOf(NewTree(longer).nodes) = root_ret

C9_Witness == root_ret # << >> /\ Len(data) = 5 /\ data[4] # data[5]

\* C10: for n >= 2 and i < n proof generation terminates without panic: the
\* cursor starts in the leaf layer's real slots, strictly decreases, and
\* every sibling index read lies within the node array.
C10_ProofTerminates ==
    /\ []((Called /\ Len(data) >= 2 /\ index < Len(data)) =>
             /\ pc # "panicked"
             /\ (pc = "proof_loop" /\ results = << >>) =>
                    /\ known_index =
                          NodesLen(nodes) - PaddedSize(Len(data)) + index
                    /\ known_index < NodesLen(nodes) - PaddedSize(Len(data))
                                         + Len(data)
             /\ (pc = "proof_loop" /\ known_index # 0) =>
                    /\ ~SiblingIndex(known_index).overflow
                    /\ SiblingIndex(known_index).val \in DOMAIN nodes)
    /\ [][(pc = "proof_loop" /\ Len(data) >= 2 /\ known_index # 0)
             => known_index' < known_index]_vars
    /\ (pc = "proof_loop" /\ Len(data) >= 2) ~> (pc = "proof_done")

C10_Witness == pc = "proof_done" /\ Len(data) = 9 /\ Len(results) = 3

====
